---- MODULE Spec2Model ----
(***************************************************************************)
(* Loop-nest lowering of loopy (loopy/codegen/loop.py): slab decomposition,*)
(* unrolled loops, hardware-parallel loops and sequential loops.           *)
(*                                                                         *)
(* One loop dimension "i" is lowered.  Integer sets (isl sets) over that   *)
(* dimension are modelled as sets of integer points inside a finite window *)
(* Points of the integer line; isl.BasicSet.universe(space) is the whole   *)
(* window.  The continuation build_loop_nest is opaque: every invocation   *)
(* is recorded, with its three arguments, in the variable calls.           *)
(***************************************************************************)
EXTENDS Integers, Sequences, FiniteSets, TLC

\* ---------------------------------------------------------------- bounds
MaxL == 1
MaxSize == 4
MaxIncr == 2
MaxAxis == 2

Points == (0 - MaxIncr - 1) .. (MaxL + MaxSize + MaxIncr + MaxAxis)

\* piece counts of a coalesced piecewise-affine bound
PieceCounts == {1, 2}

SchedIndices == {0, 1}

\* the kernel's domain list has two entries; "i" lives in one of them
DomainIndices == {1, 2}

OtherDomain == {x \in Points : x >= 0 /\ x <= 1}

VARIABLES
  kernel,         \* the kernel argument (the caller's object)
  codegen_state,  \* the codegen_state argument (the caller's object)
  sched_index,    \* the sched_index argument
  caller,         \* kernel and codegen_state as they were on entry
  op,             \* the function that has run ("none" before the call)
  error,          \* the exception the function raised ("none" if it returned)
  slabs,          \* what get_slab_decomposition returned to the function
  calls,          \* the build_loop_nest invocations, in order
  result,         \* the code block the function returned
  new_kernel      \* what intersect_kernel_with_slab returned

vars == <<kernel, codegen_state, sched_index, caller, op, error, slabs,
          calls, result, new_kernel>>

\* ------------------------------------------------------- external helpers

\* isl.BasicSet.universe(space)
universe == Points

\* iname_rel_aff(space, iname, rel, aff) as an inequality constraint on a
\* universe set: the points x with (x rel aff)
iname_rel_aff(rel, aff) ==
  CASE rel = "<"  -> {x \in universe : x < aff}
    [] rel = "<=" -> {x \in universe : x <= aff}
    [] rel = ">"  -> {x \in universe : x > aff}
    [] rel = ">=" -> {x \in universe : x >= aff}

\* make_slab(space, iname, start, stop): start <= iname < stop
make_slab(start, stop) == {x \in universe : start <= x /\ x < stop}

\* CodeGenerationState.intersect(set)
cs_intersect(cs, set) ==
  [cs EXCEPT !.implemented_domain = @ \cap set]

\* CodeGenerationState.fix(iname, aff): binds the dimension to one value
cs_fix(cs, aff) ==
  [cs EXCEPT !.fixed = Append(@, aff)]

\* codegen_state.copy(c_code_mapper=...copy_and_assign(iname, ...))
cs_copy_and_assign(cs, iname) ==
  [cs EXCEPT !.c_code_mapper = @ \cup {iname}]

\* static_value_of_pw_aff(bounds.lower_bound_pw_aff, constants_only=False)
static_value_of_pw_aff(bounds) == bounds.lower_bound

\* static_max_of_pw_aff(bounds.size, constants_only=True), as an int
static_max_of_size(bounds) == bounds.size

\* ------------------------------------------------------------ the kernel

IsUniqueTag(tag) == tag.kind \in {"l", "g", "unique"}

\* kernel.get_home_domain_index(iname)
get_home_domain_index(k) == k.home_domain_index

\* kernel.get_inames_domain(iname)
get_inames_domain(k) == k.domains[get_home_domain_index(k)]

\* kernel.get_iname_bounds(iname)
get_iname_bounds(k) == k.bounds

Kernel(L, n, li, ui, lp, up, tag, otherTag, gs, ls, hdi) ==
  [domains |-> [d \in DomainIndices |->
                  IF d = hdi THEN {x \in Points : L <= x /\ x <= L + n - 1}
                  ELSE OtherDomain],
   home_domain_index |-> hdi,
   bounds |-> [lower_bound |-> L, upper_bound |-> L + n - 1,
               lower_pieces |-> lp, upper_pieces |-> up, size |-> n],
   iname_slab_increments |-> <<li, ui>>,
   iname_to_tag |-> [i |-> tag, j |-> otherTag],
   get_grid_sizes |-> [global_size |-> <<gs>>, local_size |-> <<ls>>]]

CodegenState(impl) ==
  [implemented_domain |-> impl, fixed |-> <<>>, c_code_mapper |-> {}]

SeqTag == [kind |-> "seq", axis |-> 0]
UnrollTag == [kind |-> "unroll", axis |-> 0]

ImplementedChoices == {universe, {x \in universe : x >= 1}}

Setup(k, cs, s) ==
  /\ kernel = k
  /\ codegen_state = cs
  /\ sched_index = s
  /\ caller = [kernel |-> k, codegen_state |-> cs]
  /\ op = "none"
  /\ error = "none"
  /\ slabs = <<>>
  /\ calls = <<>>
  /\ result = <<>>
  /\ new_kernel = <<>>

\* ------------------------------------------------ get_slab_decomposition

\* mutant: the upper bound's piece count is not checked
piecewise_check_lower_only(bounds) ==
  IF bounds.lower_pieces > 1 THEN "NotImplementedError_lower"
  ELSE "none"

\* the two piece-count checks; "none" when both bounds have one piece
piecewise_check(bounds) ==
  IF bounds.lower_pieces > 1 THEN "NotImplementedError_lower"
  ELSE IF bounds.upper_pieces > 1 THEN "NotImplementedError_upper"
  ELSE "none"

\* the slabs and bulk bounds built from single-piece bounds.  Optional
\* values (None or a value) are sequences of length 0 or 1.  upper_slab is
\* given with a flag: the name is bound only when upper_incr is nonzero.
build_slabs(bounds, lower_incr, upper_incr) ==
  LET lower_bound_aff == bounds.lower_bound
      upper_bound_aff == bounds.upper_bound
      \* if lower_incr: ... else: lower_slab = None
      lower_slab_1 ==
        IF lower_incr # 0
        THEN <<[name |-> "initial",
                set |-> iname_rel_aff("<", lower_bound_aff + lower_incr)]>>
        ELSE <<>>
      lower_bulk_bound ==
        IF lower_incr # 0
        THEN <<iname_rel_aff(">=", lower_bound_aff + lower_incr)>>
        ELSE <<>>
      \* if upper_incr: ... else: lower_slab = None
      upper_slab ==
        IF upper_incr # 0
        THEN <<[name |-> "final",
                set |-> iname_rel_aff(">", upper_bound_aff - upper_incr)]>>
        ELSE <<>>
      upper_slab_bound == upper_incr # 0
      upper_bulk_bound ==
        IF upper_incr # 0
        THEN <<iname_rel_aff("<=", upper_bound_aff - upper_incr)>>
        ELSE <<>>
      lower_slab == IF upper_incr # 0 THEN lower_slab_1 ELSE <<>>
      bulk_0 == universe
      bulk_1 == IF lower_bulk_bound # <<>>
                THEN bulk_0 \cap lower_bulk_bound[1] ELSE bulk_0
      bulk_slab == IF upper_bulk_bound # <<>>
                   THEN bulk_1 \cap upper_bulk_bound[1] ELSE bulk_1
  IN  IF ~upper_slab_bound
      THEN \* "if upper_slab:" reads a local that was never assigned
           [error |-> "UnboundLocalError", slabs |-> <<>>]
      ELSE [error |-> "none",
            slabs |-> <<[name |-> "bulk", set |-> bulk_slab]>>
                      \o lower_slab \o upper_slab]

get_slab_decomposition(k) ==
  LET iname_domain == get_inames_domain(k)
      lower_incr == k.iname_slab_increments[1]
      upper_incr == k.iname_slab_increments[2]
  IN  IF iname_domain = {}
      THEN [error |-> "none", slabs |-> <<>>]
      ELSE IF lower_incr # 0 \/ upper_incr # 0
      THEN LET bounds == get_iname_bounds(k)
           IN  IF piecewise_check(bounds) # "none"
               THEN [error |-> piecewise_check(bounds), slabs |-> <<>>]
               ELSE build_slabs(bounds, lower_incr, upper_incr)
      ELSE [error |-> "none",
            slabs |-> <<[name |-> "bulk", set |-> universe]>>]

\* ------------------------------------------------------ generate_unroll_loop

\* mutant: each offset's state is derived from the previous offset's state
RECURSIVE unroll_loop_chained(_, _, _, _, _, _)
unroll_loop_chained(k, sched, cs, lower_bound_aff, i, length) ==
  IF i >= length
  THEN [calls |-> <<>>, result |-> <<>>]
  ELSE LET idx_aff == lower_bound_aff + i
           new_codegen_state == cs_fix(cs, idx_aff)
           inner == [kernel |-> k, sched_index |-> sched + 1,
                     codegen_state |-> new_codegen_state]
           rest == unroll_loop_chained(k, sched, new_codegen_state,
                                       lower_bound_aff, i + 1, length)
       IN  [calls |-> <<inner>> \o rest.calls,
            result |-> <<[kind |-> "inner", call |-> i + 1]>> \o rest.result]

\* the body of "for i in range(length)", from offset i on
RECURSIVE unroll_loop(_, _, _, _, _, _)
unroll_loop(k, sched, cs, lower_bound_aff, i, length) ==
  IF i >= length
  THEN [calls |-> <<>>, result |-> <<>>]
  ELSE LET idx_aff == lower_bound_aff + i
           new_codegen_state == cs_fix(cs, idx_aff)
           inner == [kernel |-> k, sched_index |-> sched + 1,
                     codegen_state |-> new_codegen_state]
           rest == unroll_loop(k, sched, cs, lower_bound_aff, i + 1, length)
       IN  [calls |-> <<inner>> \o rest.calls,
            result |-> <<[kind |-> "inner", call |-> i + 1]>> \o rest.result]

generate_unroll_loop(k, sched, cs) ==
  LET bounds == get_iname_bounds(k)
      length == static_max_of_size(bounds)
      lower_bound_aff == static_value_of_pw_aff(bounds)
  IN  unroll_loop(k, sched, cs, lower_bound_aff, 0, length)

\* ------------------------------------------------ intersect_kernel_with_slab

\* mutant: the home domain is replaced by the slab instead of intersected
intersect_kernel_with_slab_slab_only(k, slab) ==
  LET hdi == get_home_domain_index(k)
      new_domains == [k.domains EXCEPT ![hdi] = slab]
  IN  [kernel |-> k,
       result |-> [k EXCEPT !.domains = new_domains,
                            !.get_grid_sizes = k.get_grid_sizes]]

\* mutant: the domain list is not copied, so the argument is narrowed too
intersect_kernel_with_slab_in_place(k, slab) ==
  LET hdi == get_home_domain_index(k)
      home_domain == k.domains[hdi]
      new_domains == [k.domains EXCEPT ![hdi] = home_domain \cap slab]
      narrowed == [k EXCEPT !.domains = new_domains,
                            !.get_grid_sizes = k.get_grid_sizes]
  IN  [kernel |-> narrowed, result |-> narrowed]

\* kernel: the argument object after the call; result: the returned kernel
intersect_kernel_with_slab(k, slab) ==
  LET hdi == get_home_domain_index(k)
      home_domain == k.domains[hdi]
      new_domains == [k.domains EXCEPT ![hdi] = home_domain \cap slab]
  IN  [kernel |-> k,
       result |-> [k EXCEPT !.domains = new_domains,
                            !.get_grid_sizes = k.get_grid_sizes]]

\* ---------------------------------------------------- set_up_hw_parallel_loop

all_inames == {"i", "j"}

tag_key(tag) == <<tag.kind, tag.axis>>

other_inames_with_same_tag(k, tag) ==
  {other_iname \in all_inames :
     /\ IsUniqueTag(k.iname_to_tag[other_iname])
     /\ tag_key(k.iname_to_tag[other_iname]) = tag_key(tag)
     /\ other_iname # "i"}

\* mutant: the two work-size vectors are swapped
hw_axis_size_swapped(k, tag) ==
  IF tag.kind = "l"
  THEN k.get_grid_sizes.global_size[tag.axis + 1]
  ELSE k.get_grid_sizes.local_size[tag.axis + 1]

\* for a local-index or a group-index tag
hw_axis_size(k, tag) ==
  IF tag.kind = "l"
  THEN k.get_grid_sizes.local_size[tag.axis + 1]
  ELSE k.get_grid_sizes.global_size[tag.axis + 1]

\* mutant: two slabs are let through
shared_tag_conflict_two_allowed(others, the_slabs) ==
  others # {} /\ Len(the_slabs) > 2

\* the condition of the "cannot do slab decomposition on inames that share
\* a tag with other inames" error
shared_tag_conflict(others, the_slabs) ==
  others # {} /\ Len(the_slabs) > 1

\* the body of "for slab_name, slab in slabs", from the n-th slab on
RECURSIVE hw_slab_loop(_, _, _, _, _)
hw_slab_loop(k, sched, cs, the_slabs, n) ==
  IF n > Len(the_slabs)
  THEN [kernel |-> k, calls |-> <<>>, result |-> <<>>]
  ELSE LET slab == the_slabs[n]
           cmt == IF Len(the_slabs) = 1 THEN <<>> ELSE <<slab.name>>
           iks == intersect_kernel_with_slab(k, slab.set)
           slabbed_kernel == iks.result
           new_codegen_state == cs_copy_and_assign(cs, "i")
           inner == [kernel |-> slabbed_kernel, sched_index |-> sched + 1,
                     codegen_state |-> new_codegen_state]
           rest == hw_slab_loop(iks.kernel, sched, cs, the_slabs, n + 1)
       IN  [kernel |-> rest.kernel,
            calls |-> <<inner>> \o rest.calls,
            result |-> <<[kind |-> "inner", comment |-> cmt, call |-> n]>>
                       \o rest.result]

set_up_hw_parallel_loop(k, sched, cs) ==
  LET tag == k.iname_to_tag["i"]
      others == other_inames_with_same_tag(k, tag)
      failed(e) == [error |-> e, slabs |-> <<>>, calls |-> <<>>,
                    result |-> <<>>, kernel |-> k]
  IN  IF tag.kind \notin {"l", "g"}
      THEN failed("RuntimeError_unknown_tag")
      ELSE
      LET bounds == get_iname_bounds(k)
          lower_bound == static_value_of_pw_aff(bounds)
          slab == make_slab(lower_bound, lower_bound + hw_axis_size(k, tag))
          cs_1 == cs_intersect(cs, slab)
          d == get_slab_decomposition(k)
      IN  IF d.error # "none"
          THEN failed(d.error)
          ELSE IF shared_tag_conflict(others, d.slabs)
          THEN [failed("RuntimeError_shared_tag") EXCEPT !.slabs = d.slabs]
          ELSE LET r == hw_slab_loop(k, sched, cs_1, d.slabs, 1)
               IN  [error |-> "none", slabs |-> d.slabs, calls |-> r.calls,
                    result |-> r.result, kernel |-> r.kernel]

\* ------------------------------------------------ find_bounds_and_impl_slab

Min(S) == CHOOSE x \in S : \A y \in S : x <= y
Max(S) == CHOOSE x \in S : \A y \in S : x >= y

\* cache_manager.dim_min / dim_max, coalesced and reduced to one affine
\* expression; empty_bounds is what the queries yield on an empty set
dim_min(set, empty_bounds) == IF set = {} THEN empty_bounds[1] ELSE Min(set)
dim_max(set, empty_bounds) == IF set = {} THEN empty_bounds[2] ELSE Max(set)

find_bounds_and_impl_slab(dom_and_slab, empty_bounds) ==
  LET lbound == dim_min(dom_and_slab, empty_bounds)
      ubound == dim_max(dom_and_slab, empty_bounds)
      impl_slab == iname_rel_aff(">=", lbound) \cap iname_rel_aff("<=", ubound)
  IN  [lbound |-> lbound, ubound |-> ubound, impl_slab |-> impl_slab]

\* the outcomes of a minimum/maximum query on an empty set: an empty range
EmptyBounds == {<<1, 0>>, <<MaxL + MaxSize, 0 - 1>>}

\* ------------------------------------------ generate_sequential_loop_dim_code

\* mutant: a single-trip range still gets a loop
loop_code_always_for(lbound, ubound, n) ==
  [kind |-> "For", start |-> lbound, cond |-> "<=", bound |-> ubound,
   step |-> 1, call |-> n]

\* the code emitted around one recursed body: a binding or a counted loop
loop_code(lbound, ubound, n) ==
  IF ubound - lbound = 0
  THEN [kind |-> "Initializer", value |-> lbound, call |-> n]
  ELSE [kind |-> "For", start |-> lbound, cond |-> "<=", bound |-> ubound,
        step |-> 1, call |-> n]

\* mutant: the state narrowed for one slab is handed on to the next slab
RECURSIVE sequential_slab_loop_chained(_, _, _, _, _, _, _)
sequential_slab_loop_chained(k, sched, cs, the_slabs, n, domain, eb) ==
  IF n > Len(the_slabs)
  THEN [calls |-> <<>>, result |-> <<>>]
  ELSE LET slab == the_slabs[n]
           cmt == IF Len(the_slabs) = 1 THEN <<>>
                  ELSE <<[kind |-> "Comment", text |-> slab.name]>>
           domain_1 == domain
           dom_and_slab == domain_1 \cap slab.set
           b == find_bounds_and_impl_slab(dom_and_slab, eb)
           cs_1 == cs_intersect(cs, b.impl_slab)
           inner == [kernel |-> k, sched_index |-> sched + 1,
                     codegen_state |-> cs_1]
           rest == sequential_slab_loop_chained(k, sched, cs_1, the_slabs,
                                                n + 1, domain_1, eb)
       IN  [calls |-> <<inner>> \o rest.calls,
            result |-> cmt \o <<loop_code(b.lbound, b.ubound, n)>>
                       \o rest.result]

\* the body of "for slab_name, slab in slabs", from the n-th slab on; domain
\* is the loop-carried local of that name
RECURSIVE sequential_slab_loop(_, _, _, _, _, _, _)
sequential_slab_loop(k, sched, cs, the_slabs, n, domain, empty_bounds) ==
  IF n > Len(the_slabs)
  THEN [calls |-> <<>>, result |-> <<>>]
  ELSE LET slab == the_slabs[n]
           cmt == IF Len(the_slabs) = 1 THEN <<>>
                  ELSE <<[kind |-> "Comment", text |-> slab.name]>>
           \* isl.align_spaces(domain, slab, ...): same points, slab's space
           domain_1 == domain
           dom_and_slab == domain_1 \cap slab.set
           b == find_bounds_and_impl_slab(dom_and_slab, empty_bounds)
           inner == [kernel |-> k, sched_index |-> sched + 1,
                     codegen_state |-> cs_intersect(cs, b.impl_slab)]
           rest == sequential_slab_loop(k, sched, cs, the_slabs, n + 1,
                                        domain_1, empty_bounds)
       IN  [calls |-> <<inner>> \o rest.calls,
            result |-> cmt \o <<loop_code(b.lbound, b.ubound, n)>>
                       \o rest.result]

generate_sequential_loop_dim_code(k, sched, cs, empty_bounds) ==
  LET d == get_slab_decomposition(k)
  IN  IF d.error # "none"
      THEN [error |-> d.error, slabs |-> <<>>, calls |-> <<>>,
            result |-> <<>>]
      ELSE LET domain == get_inames_domain(k)
               r == sequential_slab_loop(k, sched, cs, d.slabs, 1, domain,
                                         empty_bounds)
           IN  [error |-> "none", slabs |-> d.slabs, calls |-> r.calls,
                result |-> r.result]

\* ------------------------------------------------------------------ inputs

HwTags == {[kind |-> "l", axis |-> 0], [kind |-> "g", axis |-> 0],
           [kind |-> "unique", axis |-> 0]}

InitSeq ==
  \E L \in 0..MaxL, n \in 0..MaxSize, li \in 0..MaxIncr, ui \in 0..MaxIncr,
     lp \in PieceCounts, up \in PieceCounts, hdi \in DomainIndices,
     s \in SchedIndices, impl \in ImplementedChoices :
       Setup(Kernel(L, n, li, ui, lp, up, SeqTag, SeqTag, 1, 1, hdi),
             CodegenState(impl), s)

InitUnroll ==
  \E L \in 0..MaxL, n \in 0..MaxSize, li \in 0..MaxIncr, ui \in 0..MaxIncr,
     s \in SchedIndices, impl \in ImplementedChoices :
       Setup(Kernel(L, n, li, ui, 1, 1, UnrollTag, SeqTag, 1, 1, 1),
             CodegenState(impl), s)

InitHw ==
  \E L \in 0..MaxL, n \in 0..MaxSize, li \in 0..MaxIncr, ui \in 0..MaxIncr,
     lp \in PieceCounts, up \in PieceCounts, tag \in HwTags,
     otherTag \in HwTags \cup {SeqTag},
     gs \in 1..MaxAxis, ls \in 1..MaxAxis, impl \in ImplementedChoices :
       Setup(Kernel(L, n, li, ui, lp, up, tag, otherTag, gs, ls, 1),
             CodegenState(impl), 0)

Init == InitSeq \/ InitUnroll \/ InitHw

\* ----------------------------------------------------------------- actions

Decompose ==
  /\ op = "none"
  /\ LET r == get_slab_decomposition(kernel)
     IN  /\ slabs' = r.slabs
         /\ error' = r.error
  /\ op' = "get_slab_decomposition"
  /\ UNCHANGED <<kernel, codegen_state, sched_index, caller, calls, result,
                 new_kernel>>

Unroll ==
  /\ op = "none"
  /\ kernel.iname_to_tag["i"].kind = "unroll"
  /\ LET r == generate_unroll_loop(kernel, sched_index, codegen_state)
     IN  /\ calls' = r.calls
         /\ result' = r.result
  /\ op' = "generate_unroll_loop"
  /\ UNCHANGED <<kernel, codegen_state, sched_index, caller, error, slabs,
                 new_kernel>>

\* the slab a caller hands to intersect_kernel_with_slab
SlabArguments(k) ==
  {universe,
   iname_rel_aff("<", k.bounds.lower_bound + 1),
   iname_rel_aff(">=", k.bounds.lower_bound + 1)}

IntersectKernel ==
  /\ op = "none"
  /\ \E slab \in SlabArguments(kernel) :
       LET r == intersect_kernel_with_slab(kernel, slab)
       IN  /\ kernel' = r.kernel
           /\ new_kernel' = <<r.result>>
           /\ slabs' = <<[name |-> "argument", set |-> slab]>>
  /\ op' = "intersect_kernel_with_slab"
  /\ UNCHANGED <<codegen_state, sched_index, caller, error, calls, result>>

HwParallel ==
  /\ op = "none"
  /\ IsUniqueTag(kernel.iname_to_tag["i"])
  /\ LET r == set_up_hw_parallel_loop(kernel, sched_index, codegen_state)
     IN  /\ error' = r.error
         /\ slabs' = r.slabs
         /\ calls' = r.calls
         /\ result' = r.result
         /\ kernel' = r.kernel
  /\ op' = "set_up_hw_parallel_loop"
  /\ UNCHANGED <<codegen_state, sched_index, caller, new_kernel>>

Sequential ==
  /\ op = "none"
  /\ kernel.iname_to_tag["i"].kind = "seq"
  /\ \E empty_bounds \in EmptyBounds :
       LET r == generate_sequential_loop_dim_code(
                  kernel, sched_index, codegen_state, empty_bounds)
       IN  /\ error' = r.error
           /\ slabs' = r.slabs
           /\ calls' = r.calls
           /\ result' = r.result
  /\ op' = "generate_sequential_loop_dim_code"
  /\ UNCHANGED <<kernel, codegen_state, sched_index, caller, new_kernel>>

Next ==
  \/ Decompose
  \/ Unroll
  \/ IntersectKernel
  \/ HwParallel
  \/ Sequential

Spec == Init /\ [][Next]_vars

\* ------------------------------------------------------------------ claims

Dom == get_inames_domain(caller.kernel)
LowerBound == caller.kernel.bounds.lower_bound
UpperBound == caller.kernel.bounds.upper_bound
LowerIncr == caller.kernel.iname_slab_increments[1]
UpperIncr == caller.kernel.iname_slab_increments[2]
SinglePiece ==
  /\ caller.kernel.bounds.lower_pieces = 1
  /\ caller.kernel.bounds.upper_pieces = 1
Tag == caller.kernel.iname_to_tag["i"]
PiecewiseErrors == {"NotImplementedError_lower", "NotImplementedError_upper"}

SlabsContaining(x) == {n \in 1..Len(slabs) : x \in slabs[n].set}

\* C1: after get_slab_decomposition has returned slabs for a non-empty domain
\* with single-piece bounds, for every increment pair and every domain size
\* (also fewer than li + ui points), every point of the domain lies in
\* exactly one of the returned slabs.
C1_Coverage ==
  (/\ op = "get_slab_decomposition"
   /\ Dom # {}
   /\ SinglePiece
   /\ error = "none")
    => \A x \in Dom : Cardinality(SlabsContaining(x)) = 1

ExpectedSlabs ==
  <<[name |-> "bulk",
     set |-> {x \in universe :
                /\ (LowerIncr > 0 => x >= LowerBound + LowerIncr)
                /\ (UpperIncr > 0 => x <= UpperBound - UpperIncr)}]>>
  \o (IF LowerIncr > 0
      THEN <<[name |-> "initial",
              set |-> {x \in universe : x < LowerBound + LowerIncr}]>>
      ELSE <<>>)
  \o (IF UpperIncr > 0
      THEN <<[name |-> "final",
              set |-> {x \in universe : x > UpperBound - UpperIncr}]>>
      ELSE <<>>)

\* C2: after get_slab_decomposition on a non-empty domain with single-piece
\* bounds, for every increment pair the returned sequence is bulk, then
\* initial exactly when the lower increment is positive, then final exactly
\* when the upper increment is positive, each with its stated constraint.
C2_SlabSequence ==
  (op = "get_slab_decomposition" /\ Dom # {} /\ SinglePiece)
    => /\ error = "none"
       /\ slabs = ExpectedSlabs

\* the function that ran got as far as calling get_slab_decomposition
ReachedDecomposition ==
  \/ op \in {"get_slab_decomposition", "generate_sequential_loop_dim_code"}
  \/ op = "set_up_hw_parallel_loop" /\ Tag.kind \in {"l", "g"}

\* C3: with a non-empty domain and a nonzero increment, a lower or upper
\* bound of more than one piece makes get_slab_decomposition raise the
\* piecewise-bound error, no slabs are returned and the lowerers make no
\* build_loop_nest invocation; with both increments zero, or an empty
\* domain, that error is not raised whatever the piece counts.
C3_PiecewisePeel ==
  ReachedDecomposition
    => /\ (/\ Dom # {}
           /\ (LowerIncr # 0 \/ UpperIncr # 0)
           /\ ~SinglePiece)
         => (error \in PiecewiseErrors /\ slabs = <<>> /\ calls = <<>>
             /\ result = <<>>)
       /\ ((LowerIncr = 0 /\ UpperIncr = 0) \/ Dom = {})
         => error \notin PiecewiseErrors

C3_Witness ==
  /\ op = "set_up_hw_parallel_loop"
  /\ error = "NotImplementedError_upper"
  /\ caller.kernel.bounds.lower_pieces = 1
  /\ LowerIncr = 0

\* C4: generate_unroll_loop on a dimension of trip count n and lower bound L
\* makes exactly n build_loop_nest invocations, the k-th with the unchanged
\* kernel, step sched_index+1 and the caller's state with the dimension fixed
\* to L+k alone; the results are the n recursed bodies in that order, with no
\* loop construct and no slab decomposition.
C4_UnrollExactness ==
  op = "generate_unroll_loop"
    => LET n == caller.kernel.bounds.size
       IN  /\ error = "none"
           /\ Len(calls) = n
           /\ \A k \in 0..(n - 1) :
                calls[k + 1] =
                  [kernel |-> caller.kernel,
                   sched_index |-> sched_index + 1,
                   codegen_state |->
                     [caller.codegen_state EXCEPT
                        !.fixed = <<LowerBound + k>>]]
           /\ result = [k \in 1..n |-> [kind |-> "inner", call |-> k]]
           /\ slabs = <<>>
           /\ kernel = caller.kernel
           /\ codegen_state = caller.codegen_state

C4_Witness ==
  /\ op = "generate_unroll_loop"
  /\ Len(calls) = 3
  /\ calls[3].codegen_state.fixed = <<LowerBound + 2>>
  /\ LowerIncr > 0
  /\ UpperIncr > 0

\* another dimension carries a unique tag with the lowered dimension's key
OtherSharesKey ==
  /\ caller.kernel.iname_to_tag["j"].kind \in {"l", "g", "unique"}
  /\ caller.kernel.iname_to_tag["j"].kind = Tag.kind
  /\ caller.kernel.iname_to_tag["j"].axis = Tag.axis

\* C5: in set_up_hw_parallel_loop, when another dimension shares the
\* hardware-axis key and the decomposition yields more than one slab, the
\* shared-axis error is raised before any build_loop_nest invocation and no
\* code is returned; otherwise that error is not raised.
C5_AmbiguityRejection ==
  op = "set_up_hw_parallel_loop"
    => /\ (OtherSharesKey /\ Len(slabs) > 1)
         => (error = "RuntimeError_shared_tag" /\ calls = <<>>
             /\ result = <<>>)
       /\ (~OtherSharesKey \/ Len(slabs) <= 1)
         => error # "RuntimeError_shared_tag"

C5_Witness ==
  /\ op = "set_up_hw_parallel_loop"
  /\ error = "RuntimeError_shared_tag"
  /\ Len(slabs) = 2
  /\ calls = <<>>

AxisSize ==
  IF Tag.kind = "l"
  THEN caller.kernel.get_grid_sizes.local_size[Tag.axis + 1]
  ELSE caller.kernel.get_grid_sizes.global_size[Tag.axis + 1]

HwRange == {x \in Points : LowerBound <= x /\ x < LowerBound + AxisSize}

\* C6: every state set_up_hw_parallel_loop passes to build_loop_nest has as
\* implemented constraints the caller's constraints intersected with exactly
\* L <= i < L + S, S being local_size[axis] for a local-index tag and
\* global_size[axis] for a group-index tag.
C6_HwImplementedSlab ==
  (op = "set_up_hw_parallel_loop" /\ error = "none")
    => \A n \in 1..Len(calls) :
         calls[n].codegen_state.implemented_domain
           = caller.codegen_state.implemented_domain \cap HwRange

C6_Witness ==
  /\ op = "set_up_hw_parallel_loop"
  /\ error = "none"
  /\ Len(calls) = 2
  /\ caller.kernel.get_grid_sizes.local_size
       # caller.kernel.get_grid_sizes.global_size
  /\ caller.codegen_state.implemented_domain # universe
  /\ calls[2].codegen_state.implemented_domain # {}

HomeDomainOf(k) == k.domains[caller.kernel.home_domain_index]

RECURSIVE Ascending(_)
Ascending(S) ==
  IF S = {} THEN <<>> ELSE <<Min(S)>> \o Ascending(S \ {Min(S)})

\* the values a counted loop binds its variable to, in order
RECURSIVE Visits(_, _)
Visits(v, blk) ==
  IF (blk.cond = "<=" /\ v <= blk.bound) \/ (blk.cond = "<" /\ v < blk.bound)
  THEN <<v>> \o Visits(v + blk.step, blk)
  ELSE <<>>

\* the code emitted for the n-th slab (a label precedes each block when
\* there is more than one slab)
BlockOf(n) == IF Len(slabs) = 1 THEN result[n] ELSE result[2 * n]

\* C8: in generate_sequential_loop_dim_code, for each slab, with (lb, ub) the
\* bounds of domain /\ slab: when ub - lb is zero the slab's block is one
\* binding of the dimension to lb followed by the recursed body, with no
\* loop; otherwise it is one counted loop from lb, while dim <= ub, step +1,
\* visiting exactly the integers lb..ub once each in ascending order.
C8_SingleTripDegeneration ==
  (op = "generate_sequential_loop_dim_code" /\ error = "none")
    => /\ Len(result) = IF Len(slabs) = 1 THEN 1 ELSE 2 * Len(slabs)
       /\ \A n \in 1..Len(slabs) :
            LET D == Dom \cap slabs[n].set
                blk == BlockOf(n)
            IN  IF D # {} /\ Max(D) - Min(D) = 0
                THEN blk = [kind |-> "Initializer", value |-> Min(D),
                            call |-> n]
                ELSE /\ blk.kind = "For"
                     /\ blk.call = n
                     /\ blk.cond = "<="
                     /\ blk.step = 1
                     /\ D # {} => (blk.start = Min(D) /\ blk.bound = Max(D))
                     /\ Visits(blk.start, blk) = Ascending(D)

C8_Witness ==
  /\ op = "generate_sequential_loop_dim_code"
  /\ error = "none"
  /\ Len(slabs) = 3
  /\ BlockOf(1).kind = "For"
  /\ Len(Visits(BlockOf(1).start, BlockOf(1))) = 2
  /\ BlockOf(2).kind = "Initializer"
  /\ BlockOf(3).kind = "Initializer"

\* C9: intersect_kernel_with_slab returns a kernel whose domain list has the
\* input's length and differs from it only at the home-domain index, where
\* it is the old home domain intersected with the slab; every other field of
\* the result equals the input's, and the input kernel is unchanged.
C9_KernelUpdaterFrame ==
  op = "intersect_kernel_with_slab"
    => LET nk == new_kernel[1]
           k0 == caller.kernel
           hdi == k0.home_domain_index
       IN  /\ DOMAIN nk.domains = DOMAIN k0.domains
           /\ \A d \in DOMAIN k0.domains :
                d # hdi => nk.domains[d] = k0.domains[d]
           /\ nk.domains[hdi] = k0.domains[hdi] \cap slabs[1].set
           /\ nk = [k0 EXCEPT !.domains = nk.domains]
           /\ nk.get_grid_sizes = k0.get_grid_sizes
           /\ kernel = k0

C9_Witness ==
  /\ op = "intersect_kernel_with_slab"
  /\ new_kernel[1].domains # caller.kernel.domains
  /\ new_kernel[1].domains[caller.kernel.home_domain_index] # {}
  /\ caller.kernel.home_domain_index = 2

\* C10: generate_sequential_loop_dim_code invokes build_loop_nest once per
\* slab returned by get_slab_decomposition, in the decomposer's order (not at
\* all for an empty domain), each time with the caller's kernel, step
\* sched_index+1 and the caller's constraints intersected with that slab's
\* own implemented slab only; the caller's state is unchanged afterwards.
C10_SiblingIndependence ==
  op = "generate_sequential_loop_dim_code"
    => /\ Len(calls) = Len(slabs)
       /\ Dom = {} => calls = <<>>
       /\ \A n \in 1..Len(slabs) :
            calls[n] =
              [kernel |-> caller.kernel,
               sched_index |-> sched_index + 1,
               codegen_state |->
                 [caller.codegen_state EXCEPT
                    !.implemented_domain = @ \cap (Dom \cap slabs[n].set)]]
       /\ codegen_state = caller.codegen_state
       /\ kernel = caller.kernel

C10_Witness ==
  /\ op = "generate_sequential_loop_dim_code"
  /\ Len(calls) = 3
  /\ caller.codegen_state.implemented_domain # universe
  /\ \A n \in 1..3 : calls[n].codegen_state.implemented_domain # {}

====
